---- MODULE Spec2Model ----
(***************************************************************************)
(* The phyllotaxis animation: the Sunflower point field (constructor and   *)
(* nextFrame), the canvas renderers that draw it and drive it from the     *)
(* host's frame scheduler, and the window load listeners that start them.  *)
(*                                                                         *)
(* Numbers.  The program computes in IEEE doubles with Math.cos, Math.sin  *)
(* and Math.sqrt.  The model computes in exact real arithmetic on the      *)
(* values the program's constants produce:                                 *)
(*   - a length is counted in units of 0.008 (1/LEN_DEN);                  *)
(*   - an angle is counted in units of a full turn / TURN, where TURN is   *)
(*     chosen so that every angle the constructor computes is a whole      *)
(*     number of units;                                                    *)
(*   - a Point {x, y} is held in polar form [m2, a]: m2 is x*x + y*y (in   *)
(*     squared length units) and a the angle of (x, y), with a = 0 for     *)
(*     the origin, so two Points are equal iff their x and y are equal.    *)
(* Rounding error of the doubles is outside the model.                     *)
(***************************************************************************)
EXTENDS Integers, Sequences, FiniteSets, TLC

(***************************************************************************)
(* Bounds of the model.                                                    *)
(***************************************************************************)
\* Sunflower(c) is constructed for every c in 0..MaxCount in SpecField.
MaxCount == 2
\* nextFrame is called up to MAX_FRAME + ExtraCalls times in SpecField.
ExtraCalls == 2
\* Sunflower(c) is constructed for every c in 0..MaxRequested in SpecCtor.
MaxRequested == 1300
\* render runs up to MaxTicks times in SpecRender and SpecTwin.
MaxTicks == 3
\* Frame callbacks carry timestamps in 0..MaxTime.
MaxTime == 2
\* The largest canvas width and height, in pixels.
MaxSize == 2
\* The largest circleSlices tried besides the default.
MaxSlices == 4

(***************************************************************************)
(* Program constants (src/main.ts 1-19).                                   *)
(***************************************************************************)
MAX_POINTS == 1000

\* The length unit, in thousandths: the 0.008 of CIRCLE_SIZE.
LEN_UNIT_MILLI == 8
\* Length units in 1.0.
LEN_DEN == 1000 \div LEN_UNIT_MILLI

\* const CIRCLE_SIZE = 0.008 * 2, in length units.
CIRCLE_SIZE == (8 * 2) \div LEN_UNIT_MILLI

MAX_TIME == 4
SECONDS_PER_TIME == 1000
FRAMES_PER_SECOND == 60
FRAMES_PER_TIME == SECONDS_PER_TIME * FRAMES_PER_SECOND
\* const INITIAL_TIME = 0.1, as the fraction INITIAL_TIME_NUM / INITIAL_TIME_DEN.
INITIAL_TIME_NUM == 1
INITIAL_TIME_DEN == 10
MAX_FRAME == MAX_TIME * FRAMES_PER_TIME

\* const DIST_MULTIPLIER = 0.020 * 2, in length units.
DIST_MULTIPLIER == (20 * 2) \div LEN_UNIT_MILLI

\* Angle units in one full turn (2 * Math.PI).
TURN == MAX_TIME * FRAMES_PER_TIME * INITIAL_TIME_DEN
\* const ANGLE_MULTIPLIER = 2 * Math.PI / MAX_TIME.
ANGLE_MULTIPLIER == TURN \div MAX_TIME

(***************************************************************************)
(* Exact arithmetic on Points.                                             *)
(***************************************************************************)
\* The Point of squared norm m2 at angle a (any integer multiple of the unit).
Polar(m2, a) == [m2 |-> m2, a |-> IF m2 = 0 THEN 0 ELSE a % TURN]

\* {x: Math.cos(angle), y: Math.sin(angle)}: the unit vector at that angle.
CosSin(angle) == Polar(LEN_DEN * LEN_DEN, angle)

\* {x: dist * c.x, y: dist * c.y} for a dist >= 0 given by its square dist2.
Scaled(dist2, c) == Polar((dist2 * c.m2) \div (LEN_DEN * LEN_DEN), c.a)

ComplexProduct_signSlip(p, d) ==
    Polar((p.m2 * d.m2) \div (LEN_DEN * LEN_DEN), p.a - d.a)
\* {x: p.x * d.x - p.y * d.y, y: p.y * d.x + p.x * d.y}: the product of p and
\* d as complex numbers.  Norms multiply and angles add.
ComplexProduct(p, d) == Polar((p.m2 * d.m2) \div (LEN_DEN * LEN_DEN), p.a + d.a)

\* p turned by the angle t about the origin.
Rotated(p, t) == Polar(p.m2, p.a + t)

(***************************************************************************)
(* class Sunflower: the constructor.                                       *)
(***************************************************************************)
\* dist * dist for const dist = DIST_MULTIPLIER * Math.sqrt(i).
DistSquared(i) == DIST_MULTIPLIER * DIST_MULTIPLIER * i

\* dist > Math.SQRT2 + CIRCLE_SIZE, decided exactly.  With d = dist,
\* c = CIRCLE_SIZE and s = SQRT2:  d > s + c  iff  d > c and (d - c)^2 > s^2
\* iff  d > c and d^2 + c^2 - s^2 > 2cd  iff  d^2 > c^2 and L > 0 and
\* L^2 > 4 c^2 d^2,  where L = d^2 + c^2 - s^2.
OutOfViewport(i) ==
    LET d2 == DistSquared(i)
        c2 == CIRCLE_SIZE * CIRCLE_SIZE
        s2 == 2 * LEN_DEN * LEN_DEN
        L  == d2 + c2 - s2
    IN  d2 > c2 /\ L > 0 /\ L * L > 4 * c2 * d2

\* const pointAngleMultiplier = ANGLE_MULTIPLIER * i.
PointAngleMultiplier(i) == ANGLE_MULTIPLIER * i

\* const angle = pointAngleMultiplier * INITIAL_TIME.
InitialAngle(i) == (PointAngleMultiplier(i) * INITIAL_TIME_NUM) \div INITIAL_TIME_DEN

\* const initPos = {x: dist * Math.cos(angle), y: dist * Math.sin(angle)}.
InitPosOf(i) == Scaled(DistSquared(i), CosSin(InitialAngle(i)))

DeltaAngle_wrongDivisor(i) == PointAngleMultiplier(i) \div FRAMES_PER_SECOND
\* const deltaAngle = pointAngleMultiplier / FRAMES_PER_TIME.
DeltaAngle(i) == PointAngleMultiplier(i) \div FRAMES_PER_TIME

DeltaPosOf_notUnit(i) == Polar(2 * LEN_DEN * LEN_DEN, DeltaAngle(i))
\* const deltaPos = {x: Math.cos(deltaAngle), y: Math.sin(deltaAngle)}.
DeltaPosOf(i) == CosSin(DeltaAngle(i))

\* Objects live in a heap of Points, addressed 1, 2, ...  Iteration i of the
\* constructor's loop allocates three of them, in this order: the initPos
\* literal, the deltaPos literal, and the copy {...initPos}.
ObjectsPerSeed == 3
InitPosAddr(i) == ObjectsPerSeed * i + 1
DeltaPosAddr(i) == ObjectsPerSeed * i + 2
CopyAddr(i) == ObjectsPerSeed * i + 3
\* The seed whose loop iteration allocated the object at address a.
SeedOfAddr(a) == (a - 1) \div ObjectsPerSeed

CurPosRef_aliased(i) == InitPosAddr(i)
\* curPos: {...initPos}: a reference to the fresh copy.
CurPosRef(i) == CopyAddr(i)

\* The SpiralPoint pushed by iteration i: references into the heap.
SpiralPointOf(i) ==
    [curPos |-> CurPosRef(i), deltaPos |-> DeltaPosAddr(i),
     initPos |-> InitPosAddr(i), rippleD |-> 0]

\* What iteration i leaves at heap address a (a is one of its three objects).
AllocatedAt(i, a) ==
    IF a = DeltaPosAddr(i) THEN DeltaPosOf(i) ELSE InitPosOf(i)

LoopExits_offByOne(i, points) == ~(i <= points) \/ OutOfViewport(i)
\* Iteration i is not run: the loop test i < points fails, or the break fires.
LoopExits(i, points) == ~(i < points) \/ OutOfViewport(i)

\* The value of i at which the loop  for (let i = 0; i < points; i++)  is left:
\* the first index, counting up from 0, at which it exits.  (No index above
\* points + 1 is ever tested.)
ExitIndex(points) ==
    LET exits == {i \in 0..(points + 1) : LoopExits(i, points)}
    IN  CHOOSE i \in exits : \A j \in exits : i <= j

\* new Sunflower(points): the object and the heap it allocated.
Sunflower(points) ==
    LET n == ExitIndex(points)
    IN  [sunflower |-> [points |-> [j \in 1..n |-> SpiralPointOf(j - 1)],
                        frame |-> 0],
         heap |-> [a \in 1..(ObjectsPerSeed * n) |-> AllocatedAt(SeedOfAddr(a), a)]]

(***************************************************************************)
(* class Sunflower: nextFrame.                                             *)
(***************************************************************************)
ResetDue_wrongConstant(frame) == frame = FRAMES_PER_TIME
\* if (this.frame === MAX_FRAME)
ResetDue(frame) == frame = MAX_FRAME

\* The heap after a loop that assigns, for every point j, value[j] to the
\* object points[j].curPos refers to.  An object is referred to only by the
\* point of the seed that allocated it.
WriteCurPos(s, h, value) ==
    [a \in DOMAIN h |->
        LET j == SeedOfAddr(a) + 1
        IN  IF s.points[j].curPos = a THEN value[j] ELSE h[a]]

nextFrame_noReturn(s, h) ==
    LET frame == s.frame + 1
        reset == [j \in DOMAIN s.points |-> h[s.points[j].initPos]]
        turned == [j \in DOMAIN s.points |->
                      ComplexProduct(h[s.points[j].initPos], h[s.points[j].deltaPos])]
        turn == [j \in DOMAIN s.points |->
                    ComplexProduct(h[s.points[j].curPos], h[s.points[j].deltaPos])]
    IN  IF ResetDue(frame)
        THEN [sunflower |-> [s EXCEPT !.frame = 0],
              heap |-> WriteCurPos(s, WriteCurPos(s, h, reset), turned)]
        ELSE [sunflower |-> [s EXCEPT !.frame = frame],
              heap |-> WriteCurPos(s, h, turn)]
\* nextFrame() on the object s with heap h: the object and the heap after it.
nextFrame(s, h) ==
    LET frame == s.frame + 1
        \* point.curPos.x = point.initPos.x; point.curPos.y = point.initPos.y
        reset == [j \in DOMAIN s.points |-> h[s.points[j].initPos]]
        \* point.curPos.x = oldX * dX - oldY * dY;
        \* point.curPos.y = oldY * dX + oldX * dY
        turn == [j \in DOMAIN s.points |->
                    ComplexProduct(h[s.points[j].curPos], h[s.points[j].deltaPos])]
    IN  IF ResetDue(frame)
        THEN [sunflower |-> [s EXCEPT !.frame = 0],
              heap |-> WriteCurPos(s, h, reset)]
        ELSE [sunflower |-> [s EXCEPT !.frame = frame],
              heap |-> WriteCurPos(s, h, turn)]

(***************************************************************************)
(* The host: the document, the canvas, the drawing contexts.               *)
(***************************************************************************)
\* The source holds four programs, each ending in its own window load
\* listener, and one renderer class no listener constructs:
\*   gl_instanced  src/main.ts 1-400: Sunflower3DRenderer, instanced drawing
\*   canvas_fps    src/main.ts 402-584: Sunflower2DRenderer with the fps text
\*   gl_uniform    src/unnamed/part_000 1-361: Sunflower3DRenderer, one
\*                 drawElements per point
\*   canvas_sync   src/unnamed/part_000 363-509: Sunflower2DRenderer whose
\*                 constructor calls render() itself
\*   canvas_plain  src/main.ts 130-167: Sunflower2DRenderer of the first
\*                 program, constructed directly on a canvas
\* (The Sunflower2DRenderer of src/unnamed/part_000 129-172, which no listener
\* constructs either, is the class of canvas_fps.)
Listeners == {"gl_instanced", "canvas_fps", "gl_uniform", "canvas_sync"}
Programs == Listeners \cup {"canvas_plain"}

\* What document.getElementById finds: nothing, an element that is no
\* canvas, or a canvas.
Elements == {"null", "div", "canvas"}

\* The calls of a renderer's constructor that can make it throw, in the order
\* the constructor makes them.
InitSteps(program) ==
    CASE program = "gl_instanced" ->
            <<"getContext", "getExtension", "createShader:vertex",
              "compileShader:vertex", "createShader:fragment",
              "compileShader:fragment", "createProgram", "linkProgram",
              "getUniformLocation:scale", "createBuffer:vertexPoints",
              "createBuffer:index", "createBuffer:coord", "createBuffer:colour">>
      [] program = "gl_uniform" ->
            <<"getContext", "createShader:vertex", "compileShader:vertex",
              "createShader:fragment", "compileShader:fragment",
              "createProgram", "linkProgram", "getUniformLocation:scale",
              "getUniformLocation:coord", "getUniformLocation:colour",
              "createBuffer:vertexPoints", "createBuffer:index">>
      [] OTHER -> <<"getContext">>

\* The error each of them throws.
ErrorOf(program, step) ==
    CASE step = "getContext" ->
            IF program \in {"gl_instanced", "gl_uniform"}
            THEN "Cannot get WebGL context." ELSE "Cannot get canvas context."
      [] step = "getExtension" -> "I need instancing!"
      [] step = "createShader:vertex" -> "Cannot create vertex shader?"
      [] step = "compileShader:vertex" -> "Vertex shader compilation failed."
      [] step = "createShader:fragment" -> "Cannot create fragment shader?"
      [] step = "compileShader:fragment" -> "Fragment shader compilation failed."
      [] step = "createProgram" -> "Cannot create GL program?"
      [] step = "linkProgram" -> "Shader linking failed."
      [] step \in {"getUniformLocation:scale", "getUniformLocation:coord",
                   "getUniformLocation:colour"} -> "Cannot get uniform location."
      [] OTHER -> "Error when creating GL buffer??"

NoError == ""
LoadErrors == {"Can't find canvas!", "Canvas isn't a canvas element!"}

\* The host a program runs in: what the document holds, whether the GL
\* context advertises ANGLE_instanced_arrays, and which other call of the
\* renderer's constructor (if any) returns null or reports failure.
FallibleSteps(program) ==
    {InitSteps(program)[k] : k \in DOMAIN InitSteps(program)} \ {"getExtension"}

\* The programs that draw with WebGL.
IsGL(program) == program \in {"gl_instanced", "gl_uniform"}

\* canvas.width and canvas.height, in pixels.
Canvases == [width : 1..MaxSize, height : 1..MaxSize]

\* The canvas of the listeners' document: wider than high.
ListenerCanvas == [width |-> MaxSize, height |-> 1]

\* circleSlices: number = 16, the default the listeners leave in place.
DefaultSlices == 16

\* The circleSlices a GL renderer is constructed with.
Slices == (0..MaxSlices) \cup {DefaultSlices}

\* A host record also carries the canvas and the circleSlices argument the
\* renderer is constructed with.
Hosts(program) ==
    [element : IF program \in Listeners THEN Elements ELSE {"canvas"},
     instancing : IF IsGL(program) THEN BOOLEAN ELSE {FALSE},
     fail : {"none"} \cup FallibleSteps(program),
     canvas : {ListenerCanvas},
     circleSlices : {DefaultSlices}]

\* The hosts on which a renderer constructed directly on a canvas starts:
\* every canvas size, and for a GL renderer every circleSlices.
DrawHosts(program) ==
    [element : {"canvas"},
     instancing : {IsGL(program)},
     fail : {"none"},
     canvas : Canvases,
     circleSlices : IF IsGL(program) THEN Slices ELSE {DefaultSlices}]

StepFails_extensionUnchecked(h, step) == step = h.fail
\* gl.getExtension("ANGLE_instanced_arrays") === null, and the like.
StepFails(h, step) ==
    IF step = "getExtension" THEN ~h.instancing ELSE step = h.fail

InitError_unchecked(prog, h) == NoError
\* The error the renderer's constructor throws on this host: that of the
\* first call that fails, NoError when none does.
InitError(prog, h) ==
    LET steps == InitSteps(prog)
        failing == {k \in DOMAIN steps : StepFails(h, steps[k])}
    IN  IF failing = {} THEN NoError
        ELSE ErrorOf(prog, steps[CHOOSE k \in failing : \A m \in failing : k <= m])

isCanvas_unchecked(element) == element # "null"
\* (<HTMLCanvasElement>canvas).getContext !== undefined
isCanvas(element) == element = "canvas"

(***************************************************************************)
(* The renderers: the fields and GL state the constructor sets up.         *)
(***************************************************************************)
Max(a, b) == IF a >= b THEN a ELSE b

\* vertexPoints: the centre, then circleSlices points at radius CIRCLE_SIZE,
\* the i-th at the angle 2 * PI * i / circleSlices, held as the fraction
\* num / den of a turn.
VertexPoints(circleSlices) ==
    <<[radius |-> 0, num |-> 0, den |-> 1]>>
    \o [k \in 1..circleSlices |->
           [radius |-> CIRCLE_SIZE, num |-> k - 1, den |-> circleSlices]]

Indices_open(circleSlices) == <<0>> \o [k \in 1..circleSlices |-> k]
\* indices = [0]; for (i = 1; i <= circleSlices; i++) indices.push(i);
\* indices.push(1).
Indices(circleSlices) == <<0>> \o [k \in 1..circleSlices |-> k] \o <<1>>

\* The colour of the GL renderers, in 255ths: colourArray[3*i + 0..2] of the
\* instanced renderer, and the uniform3f of the other.
InstanceColour == <<245, 164, 74>>
UniformColour_typo == <<245, 164, 47>>
UniformColour == <<245, 164, 74>>

\* ctx.fillStyle of the 2D renderers.
FillStyle(program) ==
    IF program = "canvas_sync" THEN <<200, 0, 0>> ELSE <<245, 164, 74>>

\* gl.uniform2f(scaleLocation, this.size / this.width, this.size /
\* this.height): each quotient as <<numerator, denominator>>.
Scale(width, height, size) == [x |-> <<size, width>>, y |-> <<size, height>>]

\* The renderer object the program's constructor builds on the host h for a
\* Sunflower of n points, with the GL state it leaves bound: the fields
\* render reads.  None of them is assigned after the constructor.
RendererOf(prog, h, n) ==
    LET width == h.canvas.width
        height == h.canvas.height
        size == Max(width, height)
        indices == Indices(h.circleSlices)
    IN  CASE prog = "gl_instanced" ->
                [program |-> prog, width |-> width, height |-> height,
                 size |-> size, scale |-> Scale(width, height, size),
                 vertexPoints |-> VertexPoints(h.circleSlices),
                 indices |-> indices, indexCount |-> Len(indices),
                 colourArray |-> [j \in 1..n |-> InstanceColour]]
          [] prog = "gl_uniform" ->
                [program |-> prog, width |-> width, height |-> height,
                 size |-> size, scale |-> Scale(width, height, size),
                 vertexPoints |-> VertexPoints(h.circleSlices),
                 indices |-> indices, indexCount |-> Len(indices),
                 colour |-> UniformColour]
          [] OTHER ->
                [program |-> prog, width |-> width, height |-> height,
                 size |-> size, fillStyle |-> FillStyle(prog)]

(***************************************************************************)
(* The renderers: render.                                                  *)
(***************************************************************************)
\* The drawing log of one render: one entry per
\*   clear                   ctx.clearRect / gl.clear
\*   fill, at, arc           ctx.beginPath; ctx.arc(at ...); ctx.fill
\*   drawElements, at,       gl.uniform2f(coordLocation, at);
\*     mode, count             gl.drawElements(mode, count, ...)
\*   drawElementsInstanced,  gl.bufferData(coordArray = at);
\*     at (a sequence),        instanceExt.drawElementsInstancedANGLE(mode,
\*     mode, count, primcount    count, ..., primcount)
\*   fpsText, text           ctx.fillRect; ctx.strokeText(text)
\*   nextFrame               this.sunflower.nextFrame()
\*   requestAnimationFrame   requestAnimationFrame(this.render)
Op(name) == [op |-> name]
Draw(name, at) == [op |-> name, at |-> at]

\* lastMs before the first render that sets it.
Undefined == -1

\* The programs whose render reads its time argument and keeps lastMs.
KeepsLastMs(program) == program \in {"canvas_fps", "gl_uniform"}

\* (1000 / (time - lastMs)).toFixed(0) + " fps": the quotient rounded to the
\* nearest integer, "Infinity" when the two timestamps are equal.
FpsText(last, time) ==
    IF time = last THEN [infinity |-> TRUE, fps |-> 0]
    ELSE [infinity |-> FALSE,
          fps |-> (2 * 1000 + (time - last)) \div (2 * (time - last))]

\* The positions render reads: this.sunflower.points[i].curPos, in order.
Positions(s, h) == [j \in DOMAIN s.points |-> h[s.points[j].curPos]]

DrawnFrom_afterAdvance(s, h) ==
    LET next == nextFrame(s, h) IN Positions(next.sunflower, next.heap)
\* The positions a render draws: those held when it is entered.
DrawnFrom(s, h) == Positions(s, h)

ArcRadius_halved(this) == (CIRCLE_SIZE * this.size) \div 2
\* Twice the radius passed to ctx.arc, CIRCLE_SIZE / 2 * this.size, in length
\* units times pixels.
ArcRadius(this) == CIRCLE_SIZE * this.size

\* The arguments of ctx.arc(this.width / 2 + point.x * this.size / 2,
\* this.height / 2 - point.y * this.size / 2, CIRCLE_SIZE / 2 * this.size,
\* ...).  A centre coordinate offset2 / 2 + (factor2 / 2) * c, where c is the
\* point's coordinate named by of, is held as [offset2, factor2, of];
\* radius2 is twice the radius.
Arc(this) ==
    [cx |-> [offset2 |-> this.width, factor2 |-> this.size, of |-> "x"],
     cy |-> [offset2 |-> this.height, factor2 |-> 0 - this.size, of |-> "y"],
     radius2 |-> ArcRadius(this)]

\* gl.drawElements(gl.TRIANGLE_FAN, this.indexCount, gl.UNSIGNED_SHORT, 0)
\* and drawElementsInstancedANGLE(gl.TRIANGLE_FAN, this.indexCount,
\* gl.UNSIGNED_SHORT, 0, n).
Fan(this) == [mode |-> "TRIANGLE_FAN", count |-> this.indexCount]

\* The clear and the drawing of the points.
DrawOps(this, s, h) ==
    LET at == DrawnFrom(s, h)
    IN  <<Op("clear")>> \o
        CASE this.program = "gl_instanced" ->
                <<Draw("drawElementsInstanced", at) @@ Fan(this)
                    @@ [primcount |-> Len(s.points)]>>
          [] this.program = "gl_uniform" ->
                [j \in DOMAIN at |-> Draw("drawElements", at[j]) @@ Fan(this)]
          [] OTHER ->
                [j \in DOMAIN at |-> Draw("fill", at[j]) @@ [arc |-> Arc(this)]]

\* if (this.lastMs !== undefined) { ... ctx.fillRect; ctx.strokeText }.  The
\* GL renderer computes fps and drops it.
FpsOps(program, last, time) ==
    IF program = "canvas_fps" /\ last # Undefined
    THEN <<[op |-> "fpsText", text |-> FpsText(last, time)]>>
    ELSE <<>>

AdvanceField_deltaTime(s, h, last, time) ==
    LET once == nextFrame(s, h)
    IN  IF last # Undefined /\ time - last > 1
        THEN nextFrame(once.sunflower, once.heap) ELSE once
\* this.sunflower.nextFrame(): once, whatever time and lastMs are.
AdvanceField(s, h, last, time) == nextFrame(s, h)

render_noRequest(this, s, h, last, time) ==
    LET next == AdvanceField(s, h, last, time)
    IN  [ops |-> DrawOps(this, s, h) \o FpsOps(this.program, last, time)
                   \o <<Op("nextFrame")>>,
         sunflower |-> next.sunflower,
         heap |-> next.heap,
         lastMs |-> IF KeepsLastMs(this.program) THEN time ELSE last]
\* render(time) of the renderer this, on the Sunflower s with heap h and
\* this.lastMs = last: its drawing log, the Sunflower and heap after it, and
\* lastMs after it.
render(this, s, h, last, time) ==
    LET next == AdvanceField(s, h, last, time)
    IN  [ops |-> DrawOps(this, s, h) \o FpsOps(this.program, last, time)
                   \o <<Op("nextFrame"), Op("requestAnimationFrame")>>,
         sunflower |-> next.sunflower,
         heap |-> next.heap,
         lastMs |-> IF KeepsLastMs(this.program) THEN time ELSE last]

(***************************************************************************)
(* The renderers: the constructors, and the load listeners.                *)
(***************************************************************************)
\* How often a log holds the entry named name.
Count(log, name) == Cardinality({k \in DOMAIN log : log[k].op = name})

RendersFirst_never(prog) == FALSE
\* Whether the constructor ends with this.render() rather than with
\* requestAnimationFrame(this.render).
RendersFirst(prog) == prog = "canvas_sync"

\* new Sunflower...Renderer(canvas, new Sunflower(points)) on a canvas: the
\* argument is constructed first, then the renderer's constructor runs.  It
\* throws at the first call that fails; otherwise it ends with
\* requestAnimationFrame(this.render), or, in canvas_sync, with this.render().
\* The result: the error thrown, the Sunflower and its heap, the log of the
\* constructor, lastMs, and how many times render has run.
newRenderer(prog, h, points) ==
    LET new == Sunflower(points)
        message == InitError(prog, h)
        this == RendererOf(prog, h, Len(new.sunflower.points))
        first == render(this, new.sunflower, new.heap, Undefined, Undefined)
    IN  IF message # NoError
        THEN [built |-> TRUE, thrown |-> message, sunflower |-> new.sunflower,
              heap |-> new.heap, ops |-> <<>>, lastMs |-> Undefined, renders |-> 0]
        ELSE IF RendersFirst(prog)
        THEN [built |-> TRUE, thrown |-> NoError, sunflower |-> first.sunflower,
              heap |-> first.heap, ops |-> first.ops, lastMs |-> first.lastMs,
              renders |-> 1]
        ELSE [built |-> TRUE, thrown |-> NoError, sunflower |-> new.sunflower,
              heap |-> new.heap, ops |-> <<Op("requestAnimationFrame")>>,
              lastMs |-> Undefined, renders |-> 0]

\* A listener that throws before it constructs anything.
Thrown(message) ==
    [built |-> FALSE, thrown |-> message, sunflower |-> [points |-> <<>>, frame |-> 0],
     heap |-> <<>>, ops |-> <<>>, lastMs |-> Undefined, renders |-> 0]

\* The load listener: document.getElementById, the two checks, the renderer.
listener(prog, h, points) ==
    IF h.element = "null" THEN Thrown("Can't find canvas!")
    ELSE IF ~isCanvas(h.element) THEN Thrown("Canvas isn't a canvas element!")
    ELSE newRenderer(prog, h, points)

(***************************************************************************)
(* State.                                                                  *)
(***************************************************************************)
VARIABLES
    requested,  \* the count passed to new Sunflower(...)
    built,      \* whether the Sunflower has been constructed
    sunflower,  \* the Sunflower object: [points, frame]
    heap,       \* the Point objects its points refer to
    calls,      \* how many times nextFrame has been called
    program,    \* which program runs
    host,       \* the host it runs in
    status,     \* "unloaded", "failed" (an error was thrown) or "running"
    error,      \* the error thrown
    pending,    \* frame callbacks requested and not yet run
    lastMs,     \* the renderer's lastMs
    ops,        \* the drawing log of the latest render
    ticks,      \* how many times render has run
    clock,      \* the timestamp of the latest frame callback
    delivered,  \* how many frame callbacks the host has run
    twin        \* a second run of the same program on the same host

fieldVars == <<requested, built, sunflower, heap, calls>>
hostVars == <<program, host, status, error, pending, lastMs, ops, ticks, clock,
              delivered>>
vars == <<fieldVars, hostVars, twin>>

NoSunflower == [points |-> <<>>, frame |-> 0]
NoHeap == <<>>
NoTwin == [sunflower |-> NoSunflower, heap |-> NoHeap, lastMs |-> Undefined,
           ops |-> <<>>, clock |-> 0]

\* The fields of the points, read through the heap.
CurPos(j) == heap[sunflower.points[j].curPos]
InitPos(j) == heap[sunflower.points[j].initPos]
DeltaPos(j) == heap[sunflower.points[j].deltaPos]
NumPoints == Len(sunflower.points)

\* The renderer object of the running program.
This == RendererOf(program, host, NumPoints)

\* No program runs: the Sunflower alone.
NoHost ==
    /\ program = "none"
    /\ host = [element |-> "null", instancing |-> FALSE, fail |-> "none",
               canvas |-> ListenerCanvas, circleSlices |-> DefaultSlices]
    /\ status = "unloaded"
    /\ error = NoError
    /\ pending = 0
    /\ lastMs = Undefined
    /\ ops = <<>>
    /\ ticks = 0
    /\ clock = 0
    /\ delivered = 0
    /\ twin = NoTwin

(***************************************************************************)
(* SpecCtor: the constructor on every requested count.                     *)
(***************************************************************************)
InitCtor ==
    /\ requested \in 0..MaxRequested
    /\ built = FALSE
    /\ sunflower = NoSunflower
    /\ heap = NoHeap
    /\ calls = 0
    /\ NoHost

Construct ==
    /\ program = "none"
    /\ ~built
    /\ LET new == Sunflower(requested)
       IN  sunflower' = new.sunflower /\ heap' = new.heap
    /\ built' = TRUE
    /\ UNCHANGED <<requested, calls, hostVars, twin>>

SpecCtor == InitCtor /\ [][Construct]_vars

(***************************************************************************)
(* SpecField: a fresh Sunflower and any number of nextFrame calls.         *)
(***************************************************************************)
InitField ==
    /\ requested \in 0..MaxCount
    /\ built = TRUE
    /\ LET new == Sunflower(requested)
       IN  sunflower = new.sunflower /\ heap = new.heap
    /\ calls = 0
    /\ NoHost

Advance ==
    /\ program = "none"
    /\ built
    /\ calls < MAX_FRAME + ExtraCalls
    /\ LET next == nextFrame(sunflower, heap)
       IN  sunflower' = next.sunflower /\ heap' = next.heap
    /\ calls' = calls + 1
    /\ UNCHANGED <<requested, built, hostVars, twin>>

SpecField == InitField /\ [][Advance]_vars

(***************************************************************************)
(* SpecRender: a program from the load event on.                           *)
(***************************************************************************)
InitRender ==
    /\ program \in Programs
    /\ host \in Hosts(program)
    /\ requested = MAX_POINTS
    /\ built = FALSE
    /\ sunflower = NoSunflower
    /\ heap = NoHeap
    /\ calls = 0
    /\ status = "unloaded"
    /\ error = NoError
    /\ pending = 0
    /\ lastMs = Undefined
    /\ ops = <<>>
    /\ ticks = 0
    /\ clock = 0
    /\ delivered = 0
    /\ twin = NoTwin

\* The state after a listener or constructor with result r has run.
Started(r) ==
    /\ built' = r.built
    /\ sunflower' = r.sunflower
    /\ heap' = r.heap
    /\ status' = IF r.thrown = NoError THEN "running" ELSE "failed"
    /\ error' = r.thrown
    /\ ops' = r.ops
    /\ lastMs' = r.lastMs
    /\ ticks' = ticks + r.renders
    /\ calls' = calls + Count(r.ops, "nextFrame")
    /\ pending' = pending + Count(r.ops, "requestAnimationFrame")
    /\ UNCHANGED <<requested, program, host, clock, delivered>>

\* The state after the host has run one pending frame callback, with result r.
Rendered(r, time) ==
    /\ sunflower' = r.sunflower
    /\ heap' = r.heap
    /\ ops' = r.ops
    /\ lastMs' = r.lastMs
    /\ clock' = time
    /\ delivered' = delivered + 1
    /\ ticks' = ticks + 1
    /\ calls' = calls + Count(r.ops, "nextFrame")
    /\ pending' = (pending - 1) + Count(r.ops, "requestAnimationFrame")
    /\ UNCHANGED <<requested, built, program, host, status, error>>

\* The window's load event: the program's listener runs.
Load ==
    /\ program \in Listeners
    /\ status = "unloaded"
    /\ Started(listener(program, host, requested))
    /\ UNCHANGED twin

\* The renderer class of the first program that no listener constructs,
\* constructed on a canvas.
NewPlain ==
    /\ program = "canvas_plain"
    /\ status = "unloaded"
    /\ Started(newRenderer(program, host, requested))
    /\ UNCHANGED twin

\* The host runs one pending frame callback: render(time).
Tick ==
    /\ status = "running"
    /\ pending > 0
    /\ ticks < MaxTicks
    /\ \E time \in clock..MaxTime :
          Rendered(render(This, sunflower, heap, lastMs, time), time)
    /\ UNCHANGED twin

Next == Load \/ NewPlain \/ Tick

SpecRender == InitRender /\ [][Next]_vars

Spec == SpecRender

(***************************************************************************)
(* SpecTwin: two runs of one program on one host, whose frame callbacks    *)
(* carry timestamps chosen independently.                                  *)
(***************************************************************************)
TwinOf(r, time) ==
    [sunflower |-> r.sunflower, heap |-> r.heap, lastMs |-> r.lastMs,
     ops |-> r.ops, clock |-> time]

LoadBoth ==
    /\ status = "unloaded"
    /\ LET r == IF program \in Listeners
                THEN listener(program, host, requested)
                ELSE newRenderer(program, host, requested)
       IN  Started(r) /\ twin' = TwinOf(r, twin.clock)

TickBoth ==
    /\ status = "running"
    /\ pending > 0
    /\ ticks < MaxTicks
    /\ \E time \in clock..MaxTime :
          Rendered(render(This, sunflower, heap, lastMs, time), time)
    /\ \E time \in twin.clock..MaxTime :
          twin' = TwinOf(render(This, twin.sunflower, twin.heap,
                                twin.lastMs, time), time)

SpecTwin == InitRender /\ [][LoadBoth \/ TickBoth]_vars

(***************************************************************************)
(* SpecDraw: each renderer class constructed directly on a canvas of every *)
(* size, the GL renderers with every circleSlices, over a small field.     *)
(***************************************************************************)
InitDraw ==
    /\ program \in Programs
    /\ host \in DrawHosts(program)
    /\ requested \in 0..MaxCount
    /\ built = FALSE
    /\ sunflower = NoSunflower
    /\ heap = NoHeap
    /\ calls = 0
    /\ status = "unloaded"
    /\ error = NoError
    /\ pending = 0
    /\ lastMs = Undefined
    /\ ops = <<>>
    /\ ticks = 0
    /\ clock = 0
    /\ delivered = 0
    /\ twin = NoTwin

\* new Sunflower...Renderer(canvas, new Sunflower(requested), circleSlices).
New ==
    /\ status = "unloaded"
    /\ Started(newRenderer(program, host, requested))
    /\ UNCHANGED twin

SpecDraw == InitDraw /\ [][New \/ Tick]_vars

(***************************************************************************)
(* SpecPair: the instanced GL renderer and the GL renderer that draws one  *)
(* call per point, side by side on the same canvas and the same field.     *)
(***************************************************************************)
InitPair == InitDraw /\ program = "gl_instanced"

\* The renderer object of the second run.
TwinThis == RendererOf("gl_uniform", host, Len(twin.sunflower.points))

NewPair ==
    /\ status = "unloaded"
    /\ Started(newRenderer(program, host, requested))
    /\ twin' = TwinOf(newRenderer("gl_uniform", host, requested), twin.clock)

TickPair ==
    /\ status = "running"
    /\ pending > 0
    /\ ticks < MaxTicks
    /\ \E time \in clock..MaxTime :
          Rendered(render(This, sunflower, heap, lastMs, time), time)
    /\ \E time \in twin.clock..MaxTime :
          twin' = TwinOf(render(TwinThis, twin.sunflower, twin.heap,
                                twin.lastMs, time), time)

SpecPair == InitPair /\ [][NewPair \/ TickPair]_vars

(***************************************************************************)
(* SpecLoop: a renderer over a small field, run past the reset: the host   *)
(* runs the pending frame callback MAX_FRAME + ExtraCalls times, its       *)
(* timestamps one apart until they reach MaxTime.                          *)
(***************************************************************************)
InitLoop ==
    /\ InitDraw
    /\ requested = MaxCount
    /\ host.canvas = ListenerCanvas
    /\ host.circleSlices = DefaultSlices

LoopTick ==
    /\ status = "running"
    /\ pending > 0
    /\ ticks < MAX_FRAME + ExtraCalls
    /\ LET time == IF clock < MaxTime THEN clock + 1 ELSE MaxTime
       IN  Rendered(render(This, sunflower, heap, lastMs, time), time)
    /\ UNCHANGED twin

SpecLoop == InitLoop /\ [][New \/ LoopTick]_vars

(***************************************************************************)
(* Properties of the Sunflower (checked under SpecField and SpecCtor).     *)
(***************************************************************************)
Origin == [m2 |-> 0, a |-> 0]
Seeds == 1..NumPoints

\* C1: from a fresh Sunflower, after exactly MAX_FRAME calls of nextFrame the
\* frame is 0 and every point's curPos equals its initPos (which is still the
\* position the constructor computed); after n calls with 1 <= n < MAX_FRAME
\* the reset has not fired: the frame is n.
C1_ResetAtMaxFrame ==
    /\ calls = MAX_FRAME =>
          /\ sunflower.frame = 0
          /\ \A j \in Seeds : CurPos(j) = InitPos(j) /\ InitPos(j) = InitPosOf(j - 1)
    /\ (1 <= calls /\ calls < MAX_FRAME) => sunflower.frame = calls

C1_Witness ==
    calls = MAX_FRAME /\ NumPoints >= 2 /\ sunflower.frame = 0

\* The number K of indices whose radius is within the cutoff.
CutoffCount == Cardinality({i \in 0..(MaxRequested + 1) : ~OutOfViewport(i)})
Least(a, b) == IF a <= b THEN a ELSE b

\* C2: the constructor generates exactly min(c, K) points; they are the seeds
\* 0..count-1 in increasing order; generation stopped at the first index
\* whose radius exceeds the cutoff.
C2_PointCount ==
    built =>
        /\ NumPoints = Least(requested, CutoffCount)
        /\ \A j \in Seeds :
              /\ sunflower.points[j].rippleD = 0
              /\ InitPos(j) = InitPosOf(j - 1)
              /\ CurPos(j) = InitPosOf(j - 1)
              /\ DeltaPos(j) = DeltaPosOf(j - 1)
              /\ ~OutOfViewport(j - 1)
        /\ NumPoints < requested => OutOfViewport(NumPoints)
        /\ sunflower.frame = 0

C2_Witness ==
    built /\ NumPoints > 0 /\ NumPoints < requested

\* C3: after any sequence of nextFrame calls the points array is the one the
\* constructor built (same length, same order, same references, same
\* rippleD), every initPos and deltaPos object holds the value the constructor
\* gave it, the only heap objects whose value differs from construction are
\* the curPos objects, and no curPos object is an initPos object.
C3_OnlyCurPosWritten ==
    LET new == Sunflower(requested)
    IN  /\ sunflower.points = new.sunflower.points
        /\ DOMAIN heap = DOMAIN new.heap
        /\ \A a \in DOMAIN heap :
              heap[a] # new.heap[a] => \E j \in Seeds : sunflower.points[j].curPos = a
        /\ \A j \in Seeds :
              /\ InitPos(j) = new.heap[new.sunflower.points[j].initPos]
              /\ DeltaPos(j) = new.heap[new.sunflower.points[j].deltaPos]
              /\ sunflower.points[j].curPos # sunflower.points[j].initPos

C3_Witness ==
    /\ calls > MAX_FRAME
    /\ NumPoints >= 2
    /\ CurPos(2) # InitPos(2)

\* C9 as stated: seed 0 starts at the origin, seed 1 at radius 0.04, and seed
\* 1 is back at its initial position after FRAMES_PER_TIME frames.
C9_Original ==
    /\ NumPoints >= 1 => InitPos(1) = Origin
    /\ NumPoints >= 2 =>
          /\ InitPos(2).m2 = DIST_MULTIPLIER * DIST_MULTIPLIER
          /\ calls = FRAMES_PER_TIME => CurPos(2) = InitPos(2)

\* C9 amended: seed 0 starts at the origin, seed 1 at radius 0.04; after
\* FRAMES_PER_TIME frames seed 1 has turned by 1/MAX_TIME of a turn; it is
\* back at its initial position for the first time after MAX_FRAME =
\* MAX_TIME * FRAMES_PER_TIME rotations (the last of them is the one the
\* reset frame replaces).
C9_FullTurnAfterMaxFrame ==
    /\ NumPoints >= 1 => InitPos(1) = Origin
    /\ NumPoints >= 2 =>
          /\ InitPos(2).m2 = DIST_MULTIPLIER * DIST_MULTIPLIER
          /\ FRAMES_PER_TIME * DeltaPos(2).a = TURN \div MAX_TIME
          /\ calls = FRAMES_PER_TIME =>
                CurPos(2) = Rotated(InitPos(2), TURN \div MAX_TIME)
          /\ (0 < calls /\ calls < MAX_FRAME) => CurPos(2) # InitPos(2)
          /\ calls = MAX_FRAME - 1 =>
                ComplexProduct(CurPos(2), DeltaPos(2)) = InitPos(2)

C9_Witness ==
    /\ NumPoints >= 2
    /\ calls = MAX_FRAME - 1
    /\ sunflower.frame = MAX_FRAME - 1

\* C10: while no reset intervenes, the point of seed i after k frames is its
\* initial position turned by k * DeltaAngle(i): its angle is
\* i * (InitialAngle(1) + k * DeltaAngle(1)), linear in k and proportional to
\* i, and its radius is that of seed i.
C10_ClosedForm ==
    \A j \in Seeds :
        /\ CurPos(j) = Rotated(InitPos(j), sunflower.frame * DeltaAngle(j - 1))
        /\ CurPos(j) =
              Polar(DistSquared(j - 1),
                    (j - 1) * (InitialAngle(1) + sunflower.frame * DeltaAngle(1)))

C10_Witness ==
    /\ NumPoints >= 2
    /\ sunflower.frame = MAX_FRAME - 1
    /\ CurPos(2) # InitPos(2)

\* C11: the norm of every point's curPos stays the radius the constructor
\* gave seed i, DIST_MULTIPLIER * sqrt(i), through rotation frames and reset
\* frames alike (both are compared by their squares).
C11_NormInvariant ==
    \A j \in Seeds :
        /\ CurPos(j).m2 = DistSquared(j - 1)
        /\ CurPos(j).m2 = InitPos(j).m2
        /\ DeltaPos(j).m2 = LEN_DEN * LEN_DEN

C11_Witness ==
    /\ NumPoints >= 2
    /\ calls = MAX_FRAME + 1
    /\ CurPos(2).a # InitPos(2).a
    /\ CurPos(2).m2 = DIST_MULTIPLIER * DIST_MULTIPLIER

\* C12: a Sunflower constructed with 0 has no points, and nextFrame changes
\* nothing but the frame, which goes up by one per call and wraps to 0 at
\* MAX_FRAME.
C12_EmptyField ==
    requested = 0 =>
        /\ sunflower.points = <<>>
        /\ heap = NoHeap
        /\ sunflower.frame = calls % MAX_FRAME

C12_Witness ==
    /\ requested = 0
    /\ calls = MAX_FRAME + 1
    /\ sunflower.frame = 1
    /\ NumPoints = 0

\* C16: after n calls of nextFrame the frame is n mod MAX_FRAME, so it stays
\* within 0..MAX_FRAME - 1 and every call that is no reset raises it by one;
\* the call that resets leaves every point at its initPos, with no rotation
\* applied on top.
C16_FrameCounter ==
    /\ sunflower.frame = calls % MAX_FRAME
    /\ sunflower.frame \in 0..(MAX_FRAME - 1)
    /\ (calls > 0 /\ sunflower.frame = 0) =>
          \A j \in Seeds : CurPos(j) = InitPos(j)

C16_Witness ==
    /\ calls = MAX_FRAME
    /\ sunflower.frame = 0
    /\ NumPoints >= 2
    /\ CurPos(2) = InitPos(2)
    /\ ComplexProduct(CurPos(2), DeltaPos(2)) # InitPos(2)

\* C19: for every seed i, MAX_FRAME * deltaAngle_i is i full turns; the
\* position the reset writes is the one a further rotation would have given
\* after the MAX_FRAME - 1 rotations before it; so after n calls, resets
\* included, every point is where n rotations alone would have put it: the
\* trajectory has period MAX_FRAME and does not jump at the reset.
C19_SeamlessReset ==
    \A j \in Seeds :
        /\ MAX_FRAME * DeltaAngle(j - 1) = (j - 1) * TURN
        /\ sunflower.frame = MAX_FRAME - 1 =>
              ComplexProduct(CurPos(j), DeltaPos(j)) = InitPos(j)
        /\ CurPos(j) = Rotated(InitPosOf(j - 1), calls * DeltaAngle(j - 1))
        /\ CurPos(j) = Rotated(InitPosOf(j - 1), (calls % MAX_FRAME) * DeltaAngle(j - 1))

C19_Witness ==
    /\ NumPoints >= 2
    /\ calls = MAX_FRAME + 2
    /\ sunflower.frame = 2
    /\ CurPos(2) # InitPos(2)

(***************************************************************************)
(* Properties of the renderers (checked under SpecRender and SpecTwin).    *)
(***************************************************************************)
\* The log without the fps text.
IsDrawing(entry) == entry.op # "fpsText"
WithoutFps(log) == SelectSeq(log, IsDrawing)

\* The position of point j after k rotations of its constructed position.
AfterFrames(j, k) == Rotated(InitPosOf(j - 1), k * DeltaAngle(j - 1))

\* The calls of a log, each with the position it draws and nothing else.
Calls(log) ==
    [k \in DOMAIN log |->
        IF "at" \in DOMAIN log[k] THEN Draw(log[k].op, log[k].at) ELSE log[k]]

\* One drawing of every position of at, in order: a single instanced call
\* that carries them all, or one call per position.
OncePerPoint(prog, at) ==
    CASE prog = "gl_instanced" -> <<Draw("drawElementsInstanced", at)>>
      [] prog = "gl_uniform" -> [j \in DOMAIN at |-> Draw("drawElements", at[j])]
      [] OTHER -> [j \in DOMAIN at |-> Draw("fill", at[j])]

\* C4: every render, in every renderer, clears, then draws each point once in
\* order at the position it held before this render's nextFrame, then calls
\* nextFrame once, then requests one frame callback; the k-th render draws
\* the field after k - 1 calls of nextFrame.
C4_RenderOrder ==
    ticks >= 1 =>
        /\ Calls(WithoutFps(ops)) =
              <<Op("clear")>>
              \o OncePerPoint(program, [j \in Seeds |-> AfterFrames(j, ticks - 1)])
              \o <<Op("nextFrame"), Op("requestAnimationFrame")>>
        /\ NumPoints = MAX_POINTS
        /\ calls = ticks
        /\ sunflower.frame = ticks
        /\ \A j \in Seeds : CurPos(j) = AfterFrames(j, ticks)
        /\ pending = 1

C4_Witness ==
    /\ ticks >= 2
    /\ program = "canvas_fps"
    /\ Count(ops, "fpsText") = 1
    /\ Count(ops, "fill") = MAX_POINTS

\* Some call of the renderer's constructor fails on this host.
InitFails ==
    \E k \in DOMAIN InitSteps(program) : StepFails(host, InitSteps(program)[k])

\* C5: if a call of the renderer's constructor fails, then once the
\* constructor has run an error has been thrown, and no frame callback is
\* ever requested, nothing is ever drawn and nextFrame is never called.
C5_InitFailureStopsAll ==
    (host.element = "canvas" /\ InitFails) =>
        /\ status # "running"
        /\ status = "failed" => error # NoError /\ error \notin LoadErrors
        /\ pending = 0
        /\ ops = <<>>
        /\ ticks = 0
        /\ calls = 0
        /\ sunflower.frame = 0

C5_Witness ==
    /\ status = "failed"
    /\ program = "gl_uniform"
    /\ error = "Error when creating GL buffer??"
    /\ built

\* The renderer draws with the instanced call.
DrawsInstanced == Count(ops, "drawElementsInstanced") > 0

C7_NoCanvasIsFatal ==
    (program \in Listeners /\ host.element # "canvas") =>
        /\ ~built
        /\ sunflower = NoSunflower /\ heap = NoHeap
        /\ status # "running"
        /\ pending = 0 /\ ticks = 0 /\ calls = 0 /\ ops = <<>>
        /\ status = "failed" =>
              error = IF host.element = "null" THEN "Can't find canvas!"
                      ELSE "Canvas isn't a canvas element!"

C7_Witness ==
    /\ status = "failed"
    /\ host.element = "div"
    /\ error = "Canvas isn't a canvas element!"

\* C8: two runs of the same program on the same host, whose frame callbacks
\* carry different timestamps, have the same Sunflower (frame and every
\* point's curPos) after each render; their logs differ at most in the text
\* of the fps display.
C8_TimestampsDoNotMove ==
    /\ twin.sunflower = sunflower
    /\ twin.heap = heap
    /\ Len(twin.ops) = Len(ops)
    /\ \A k \in DOMAIN ops :
          twin.ops[k] # ops[k] => (ops[k].op = "fpsText" /\ twin.ops[k].op = "fpsText")
    /\ sunflower.frame = ticks

C8_Witness ==
    /\ ticks = MaxTicks
    /\ program = "canvas_fps"
    /\ twin.lastMs # lastMs
    /\ twin.ops # ops
    /\ NumPoints = MAX_POINTS

(***************************************************************************)
(* Properties of what is drawn and when (checked under SpecDraw, SpecPair, *)
(* SpecLoop and SpecRender).                                               *)
(***************************************************************************)
IsInstancedCall(entry) == entry.op = "drawElementsInstanced"
IsElementsCall(entry) == entry.op = "drawElements"

\* One disc a GL renderer draws: where, in which colour, and with which mesh,
\* scale and call arguments.
Disc(this, at, colour, call) ==
    [at |-> at, colour |-> colour, mode |-> call.mode, count |-> call.count,
     vertexPoints |-> this.vertexPoints, indices |-> this.indices,
     scale |-> this.scale]

\* The discs the log of one render of a GL renderer draws, in order: one per
\* instance of each instanced call, one per drawElements call.
DiscsOf(this, log) ==
    IF this.program = "gl_instanced"
    THEN LET batch == SelectSeq(log, IsInstancedCall)
         IN  IF batch = <<>> THEN <<>>
             ELSE [j \in 1..batch[1].primcount |->
                      Disc(this, batch[1].at[j], this.colourArray[j], batch[1])]
    ELSE LET each == SelectSeq(log, IsElementsCall)
         IN  [j \in DOMAIN each |-> Disc(this, each[j].at, this.colour, each[j])]

\* C13: run side by side on one canvas and one field, the instanced GL
\* renderer and the GL renderer that draws one call per point hold equal
\* Sunflower state after every frame, and every frame of the two draws the
\* same discs: one per point, in order, at the point's curPos, in the same
\* colour, with the same mesh, index count and scale.
C13_SameDrawing ==
    status = "running" =>
        /\ twin.sunflower = sunflower
        /\ twin.heap = heap
        /\ DiscsOf(This, ops) = DiscsOf(TwinThis, twin.ops)
        /\ Count(ops, "drawElementsInstanced") = (IF ticks >= 1 THEN 1 ELSE 0)
        /\ Count(twin.ops, "drawElements") = (IF ticks >= 1 THEN NumPoints ELSE 0)
        /\ ticks >= 1 =>
              /\ Len(DiscsOf(This, ops)) = NumPoints
              /\ \A j \in Seeds :
                    /\ DiscsOf(TwinThis, twin.ops)[j].at = AfterFrames(j, ticks - 1)
                    /\ DiscsOf(TwinThis, twin.ops)[j].colour = InstanceColour

C13_Witness ==
    /\ status = "running"
    /\ ticks = 2
    /\ NumPoints >= 2
    /\ host.circleSlices = DefaultSlices
    /\ host.canvas.width # host.canvas.height
    /\ twin.clock # clock
    /\ Len(DiscsOf(TwinThis, twin.ops)) = NumPoints
    /\ DiscsOf(This, ops)[2].at # InitPosOf(1)

\* The fill entries of the latest render, in order.
IsFill(entry) == entry.op = "fill"
Fills == SelectSeq(ops, IsFill)

\* The centres of C14: every point is drawn, in order, with an arc centred at
\* (width/2 + x*size/2, height/2 - y*size/2), (x, y) being its curPos when
\* the render was entered and size = max(width, height).
CentresAsStated ==
    /\ Len(Fills) = NumPoints
    /\ \A j \in Seeds :
          /\ Fills[j].at = AfterFrames(j, ticks - 1)
          /\ Fills[j].arc.cx =
                [offset2 |-> host.canvas.width,
                 factor2 |-> Max(host.canvas.width, host.canvas.height),
                 of |-> "x"]
          /\ Fills[j].arc.cy =
                [offset2 |-> host.canvas.height,
                 factor2 |-> 0 - Max(host.canvas.width, host.canvas.height),
                 of |-> "y"]

\* C14 as stated: a 2D renderer draws every point as a disc centred as
\* above whose pixel radius, divided by the size/2 pixels per world unit of
\* the centre's mapping, is CIRCLE_SIZE / 2.
C14_Original ==
    (~IsGL(program) /\ ticks >= 1) =>
        /\ CentresAsStated
        /\ \A j \in Seeds :
              2 * Fills[j].arc.radius2 = CIRCLE_SIZE * Fills[j].arc.cx.factor2

\* C14 amended: a 2D renderer draws every point as a disc centred as above
\* whose pixel radius is CIRCLE_SIZE / 2 * size, which divided by the size/2
\* pixels per world unit of the centre's mapping is CIRCLE_SIZE: the radius
\* in world units is CIRCLE_SIZE, that of the GL renderers' mesh.
C14_DiscGeometry ==
    (~IsGL(program) /\ ticks >= 1) =>
        /\ CentresAsStated
        /\ \A j \in Seeds :
              /\ Fills[j].arc.radius2 = CIRCLE_SIZE * Fills[j].arc.cx.factor2
              /\ Fills[j].arc.radius2 =
                    CIRCLE_SIZE * Max(host.canvas.width, host.canvas.height)
              /\ \A k \in 2..Len(VertexPoints(DefaultSlices)) :
                    Fills[j].arc.radius2 =
                        VertexPoints(DefaultSlices)[k].radius * Fills[j].arc.cx.factor2

C14_Witness ==
    /\ program = "canvas_sync"
    /\ ticks = 2
    /\ NumPoints >= 2
    /\ host.canvas.height > host.canvas.width
    /\ Len(Fills) = NumPoints
    /\ Fills[2].arc.cx.factor2 = host.canvas.height
    /\ Fills[2].at # InitPosOf(1)

\* The draw calls of the latest render of a GL renderer.
IsGLCall(entry) == entry.op \in {"drawElements", "drawElementsInstanced"}
GLCalls == SelectSeq(ops, IsGLCall)

\* C15: for every circleSlices a GL renderer is constructed with, its mesh
\* is the centre at the origin and circleSlices vertices on the circle of
\* radius CIRCLE_SIZE, its index list is 0, 1, ..., circleSlices, 1, of
\* length circleSlices + 2, and every draw call of every frame draws a
\* triangle fan with that many indices.
C15_FanMesh ==
    (IsGL(program) /\ status = "running") =>
        LET n == host.circleSlices
        IN  /\ Len(This.indices) = n + 2
            /\ This.indices[1] = 0
            /\ This.indices[n + 2] = 1
            /\ \A k \in 1..n : This.indices[k + 1] = k
            /\ Len(This.vertexPoints) = n + 1
            /\ This.vertexPoints[1].radius = 0
            /\ \A k \in 1..n :
                  /\ This.vertexPoints[k + 1].radius = CIRCLE_SIZE
                  /\ This.vertexPoints[k + 1].num = k - 1
                  /\ This.vertexPoints[k + 1].den = n
            /\ This.indexCount = n + 2
            /\ \A k \in DOMAIN GLCalls :
                  GLCalls[k].count = n + 2 /\ GLCalls[k].mode = "TRIANGLE_FAN"
            /\ ticks >= 1 =>
                  Len(GLCalls) = (IF program = "gl_instanced" THEN 1 ELSE NumPoints)

C15_Witness ==
    /\ program = "gl_uniform"
    /\ ticks = 3
    /\ host.circleSlices = 3
    /\ NumPoints >= 2
    /\ Len(GLCalls) = NumPoints
    /\ GLCalls[2].count = 5
    /\ This.indices = <<0, 1, 2, 3, 1>>

\* How many renders the constructor itself makes.
FirstRenders == IF RendersFirst(program) THEN 1 ELSE 0

\* C17: a renderer that has started stays running with exactly one frame
\* callback pending between callbacks; every callback the host runs is one
\* render and one nextFrame, so after k renders the frame is k mod
\* MAX_FRAME, and the reset, which leaves every point at its initPos, comes
\* at every MAX_FRAME-th render.
C17_OneCallbackPending ==
    /\ status = "running" =>
          /\ pending = 1
          /\ error = NoError
          /\ ticks = delivered + FirstRenders
          /\ calls = ticks
          /\ sunflower.frame = ticks % MAX_FRAME
          /\ (ticks >= 1 /\ ticks % MAX_FRAME = 0) =>
                \A j \in Seeds : CurPos(j) = InitPos(j)
          /\ ticks >= 1 =>
                /\ Count(ops, "nextFrame") = 1
                /\ Count(ops, "requestAnimationFrame") = 1
    /\ status # "running" => delivered = 0 /\ ticks = 0 /\ pending = 0

C17_Witness ==
    /\ status = "running"
    /\ delivered > MAX_FRAME
    /\ pending = 1
    /\ sunflower.frame = 1
    /\ ticks = MAX_FRAME + 1
    /\ NumPoints >= 2
    /\ CurPos(2) # InitPos(2)

\* Something was drawn, or nextFrame was called, by the latest render or by
\* the constructor.
DrewOrAdvanced ==
    \E k \in DOMAIN ops : ops[k].op \in {"clear", "fill", "drawElements",
                                         "drawElementsInstanced", "nextFrame"}

\* C18 as stated: every render is run by a frame callback of the host, and
\* when the constructor returns it has requested one callback and has
\* neither drawn nor called nextFrame: frame is 0.
C18_Original ==
    status = "running" =>
        /\ ticks = delivered
        /\ delivered = 0 =>
              /\ pending = 1
              /\ ~DrewOrAdvanced
              /\ calls = 0
              /\ sunflower.frame = 0

\* C18 amended: that holds of every renderer but the Sunflower2DRenderer of
\* the program canvas_sync, whose constructor ends with this.render(): it
\* has drawn frame 0 and called nextFrame once when it returns, frame is 1,
\* and one callback is pending; its later renders are run by frame callbacks.
C18_FirstRender ==
    status = "running" =>
        /\ program # "canvas_sync" =>
              /\ ticks = delivered
              /\ delivered = 0 =>
                    /\ pending = 1
                    /\ ~DrewOrAdvanced
                    /\ calls = 0
                    /\ sunflower.frame = 0
        /\ program = "canvas_sync" =>
              /\ ticks = delivered + 1
              /\ pending = 1
              /\ delivered = 0 =>
                    /\ Count(ops, "fill") = NumPoints
                    /\ calls = 1
                    /\ sunflower.frame = 1

C18_Witness ==
    /\ status = "running"
    /\ program = "canvas_sync"
    /\ delivered = 0
    /\ sunflower.frame = 1
    /\ Count(ops, "clear") = 1

====
